---- MODULE Spec2Model ----
(***************************************************************************)
(* A model of knurdy, the serde deserializer for KDL nodes.                *)
(*                                                                         *)
(* Text (node names, property names, annotations, string values) is a      *)
(* sequence of Unicode code points; s.as_bytes() is its UTF-8 encoding.    *)
(* A 64-bit signed integer is four 16-bit limbs <<l3, l2, l1, l0>>, the    *)
(* top limb signed (two's complement): l3*2^48 + l2*2^32 + l1*2^16 + l0.   *)
(* Option<T> is a sequence of length 0 (None) or 1 (Some).                 *)
(***************************************************************************)
EXTENDS Integers, Sequences, FiniteSets, TLC

VARIABLES de, stack, out, last

vars == <<de, stack, out, last>>

(***************************************************************************)
(* Bounds of the model.                                                    *)
(***************************************************************************)
MaxEntries == 2
MaxKids == 2

(***************************************************************************)
(* Option                                                                  *)
(***************************************************************************)
None == <<>>
Some(x) == <<x>>
IsSome(o) == Len(o) = 1
IsNone(o) == Len(o) = 0
Unwrap(o) == o[1]

(***************************************************************************)
(* Text constants (code points).                                           *)
(***************************************************************************)
S_dash == <<45>>
S_a_kid == <<97, 45, 107, 105, 100>>
S_an_enum == <<97, 110, 45, 101, 110, 117, 109>>
S_foo == <<102, 111, 111>>
S_aKid == <<97, 75, 105, 100>>
S_byte == <<98, 121, 116, 101>>
S_char == <<99, 104, 97, 114>>
S_base64 == <<98, 97, 115, 101, 54, 52>>
S_Variant1 == <<86, 97, 114, 105, 97, 110, 116, 49>>
S_Variant2 == <<86, 97, 114, 105, 97, 110, 116, 50>>
S_empty == <<>>
S_A == <<65>>
S_AB == <<65, 66>>
S_at == <<64>>
S_QQpad == <<81, 81, 61, 61>>
S_QQ1 == <<81, 81, 61>>
S_eacute == <<233>>
S_robot == <<129302>>

(***************************************************************************)
(* str::as_bytes: the UTF-8 encoding of a text.                            *)
(***************************************************************************)
Utf8(cp) ==
  IF cp < 128 THEN <<cp>>
  ELSE IF cp < 2048 THEN <<192 + (cp \div 64), 128 + (cp % 64)>>
  ELSE IF cp < 65536
    THEN <<224 + (cp \div 4096), 128 + ((cp \div 64) % 64), 128 + (cp % 64)>>
  ELSE <<240 + (cp \div 262144), 128 + ((cp \div 4096) % 64),
         128 + ((cp \div 64) % 64), 128 + (cp % 64)>>

RECURSIVE as_bytes(_)
as_bytes(s) == IF s = <<>> THEN <<>> ELSE Utf8(Head(s)) \o as_bytes(Tail(s))

(***************************************************************************)
(* 64-bit integers as limbs, and the checked narrowing conversions.        *)
(***************************************************************************)
I64(l3, l2, l1, l0) == <<l3, l2, l1, l0>>
Small(n) == I64(0, 0, 0, n)

Lt(x, y) == \E i \in 1..4 : x[i] < y[i] /\ \A j \in 1..(i - 1) : x[j] = y[j]

IntTypes == {"u8", "u16", "u32", "u64", "u128", "i8", "i16", "i32", "i64", "i128"}

\* Self::MIN as i64, for the targets narrower than the source
IntMin(ty) ==
  CASE ty = "i8" -> I64(-1, 65535, 65535, 65408)
    [] ty = "i16" -> I64(-1, 65535, 65535, 32768)
    [] ty = "i32" -> I64(-1, 65535, 32768, 0)
    [] OTHER -> Small(0)

\* Self::MAX as i64, for the targets narrower than the source
IntMax(ty) ==
  CASE ty = "u8" -> Small(255)
    [] ty = "u16" -> Small(65535)
    [] ty = "u32" -> I64(0, 0, 65535, 65535)
    [] ty = "i8" -> Small(127)
    [] ty = "i16" -> Small(32767)
    [] ty = "i32" -> I64(0, 0, 32767, 65535)
    [] OTHER -> I64(32767, 65535, 65535, 65535)

\* `u as Self`: the truncating cast, low bits kept and re-extended
AsCast(v, ty) ==
  CASE ty = "u8" -> Small(v[4] % 256)
    [] ty = "u16" -> Small(v[4])
    [] ty = "u32" -> I64(0, 0, v[3], v[4])
    [] ty = "i8" ->
         LET b == v[4] % 256
         IN  IF b >= 128 THEN I64(-1, 65535, 65535, 65280 + b) ELSE Small(b)
    [] ty = "i16" ->
         IF v[4] >= 32768 THEN I64(-1, 65535, 65535, v[4]) ELSE Small(v[4])
    [] ty = "i32" ->
         IF v[3] >= 32768 THEN I64(-1, 65535, v[3], v[4]) ELSE I64(0, 0, v[3], v[4])
    [] OTHER -> v

\* a bug: only the upper bound is checked, a value below the range is cast
TryInto_no_lower_bound(v, ty) ==
  IF ty \in {"i64", "i128", "u64", "u128"} THEN Some(AsCast(v, ty))
  ELSE IF Lt(IntMax(ty), v) THEN None
  ELSE Some(AsCast(v, ty))

\* i64 -> $ty TryFrom: Some(converted) or None (TryFromIntError)

TryInto(v, ty) ==
  IF ty \in {"i64", "i128"} THEN Some(v)
  ELSE IF ty \in {"u64", "u128"}
    THEN IF Lt(v, Small(0)) THEN None ELSE Some(AsCast(v, ty))
  ELSE IF Lt(v, IntMin(ty)) \/ Lt(IntMax(ty), v) THEN None
  ELSE Some(AsCast(v, ty))

\* u32 -> char TryFrom: the code point, or None (CharTryFromError)
CharTryFrom(u) ==
  LET cp == u[3] * 65536 + u[4]
  IN  IF u[3] > 16 \/ (u[3] = 0 /\ u[4] >= 55296 /\ u[4] <= 57343)
        THEN None
        ELSE Some(cp)

(***************************************************************************)
(* KdlValue: a kind and a payload (text: code points; integer: limbs;      *)
(* float: <<m, e>> for m * 2^e; bool: <<0>> or <<1>>; null: <<>>).         *)
(***************************************************************************)
TextKinds == {"String", "RawString"}
IntKinds == {"Base2", "Base8", "Base10", "Base16"}

KdlValue(kind, v) == [kind |-> kind, v |-> v]
NullValue == KdlValue("Null", <<>>)

(***************************************************************************)
(* Outcomes of a request: the visitor method called with its argument, or  *)
(* a DeError.                                                              *)
(***************************************************************************)
Visit(call, arg) == [call |-> call, arg |-> arg, kind |-> "", msg |-> <<>>]
ErrKind(kind) == [call |-> "Err", arg |-> <<>>, kind |-> kind, msg |-> <<>>]

\* impl de::Error for DeError: custom() is the only constructor overridden
custom(msg) == [call |-> "Err", arg |-> <<>>, kind |-> "VisitorError", msg |-> msg]

\* de::Error::invalid_type is the trait's provided method: it formats
\* "invalid type: {unexp}, expected {exp}" and hands it to custom()
invalid_type(unexp, exp) == custom(<<"invalid type", unexp, exp>>)

unexpected_val(val) ==
  CASE val.kind \in TextKinds -> "Str"
    [] val.kind \in IntKinds -> "Signed"
    [] val.kind = "Base10Float" -> "Float"
    [] val.kind = "Bool" -> "Bool"
    [] OTHER -> "Unit"

IsErr(o) == o.call = "Err"

(***************************************************************************)
(* `*f as f32`: an f64 m * 2^e rounded to a 24-bit significand, ties to    *)
(* even (the exponents of the model stay inside the f32 range).            *)
(***************************************************************************)
RECURSIVE Pow2(_)
Pow2(n) == IF n = 0 THEN 1 ELSE 2 * Pow2(n - 1)

RECURSIVE BitLen(_)
BitLen(m) == IF m = 0 THEN 0 ELSE 1 + BitLen(m \div 2)

AsF32(f) ==
  LET m == IF f[1] < 0 THEN -f[1] ELSE f[1]
      sign == IF f[1] < 0 THEN -1 ELSE 1
      shift == BitLen(m) - 24
  IN  IF shift <= 0 THEN f
      ELSE LET q == m \div Pow2(shift)
               r == m % Pow2(shift)
               half == Pow2(shift - 1)
               up == r > half \/ (r = half /\ q % 2 = 1)
           IN  <<sign * (IF up THEN q + 1 ELSE q), f[2] + shift>>

(***************************************************************************)
(* base64::decode (the external codec, by its contract): the standard      *)
(* alphabet with canonical padding; None on malformed input.               *)
(***************************************************************************)
B64Val(c) ==
  IF c >= 65 /\ c <= 90 THEN c - 65
  ELSE IF c >= 97 /\ c <= 122 THEN c - 71
  ELSE IF c >= 48 /\ c <= 57 THEN c + 4
  ELSE IF c = 43 THEN 62
  ELSE IF c = 47 THEN 63
  ELSE -1

\* one 4-character group: Some(bytes) or None
B64Group(g, isLast) ==
  LET a == B64Val(g[1])
      b == B64Val(g[2])
      c == B64Val(g[3])
      d == B64Val(g[4])
  IN  IF a < 0 \/ b < 0 THEN None
      ELSE IF isLast /\ g[3] = 61 /\ g[4] = 61
        THEN IF b % 16 # 0 THEN None ELSE Some(<<a * 4 + (b \div 16)>>)
      ELSE IF c < 0 THEN None
      ELSE IF isLast /\ g[4] = 61
        THEN IF c % 4 # 0 THEN None
             ELSE Some(<<a * 4 + (b \div 16), (b % 16) * 16 + (c \div 4)>>)
      ELSE IF d < 0 THEN None
      ELSE Some(<<a * 4 + (b \div 16), (b % 16) * 16 + (c \div 4), (c % 4) * 64 + d>>)

RECURSIVE base64_decode(_)
base64_decode(s) ==
  IF s = <<>> THEN Some(<<>>)
  ELSE IF Len(s) < 4 THEN None
  ELSE LET g == B64Group(SubSeq(s, 1, 4), Len(s) = 4)
           rest == base64_decode(SubSeq(s, 5, Len(s)))
       IN  IF IsNone(g) \/ IsNone(rest) THEN None
           ELSE Some(Unwrap(g) \o Unwrap(rest))

(***************************************************************************)
(* heck's ToSnekCase::to_snek_case (the external case-folding utility):    *)
(* words are split at every non-alphanumeric character and at the case     *)
(* boundaries, lowercased, and joined with "_".                            *)
(***************************************************************************)
IsUpper(c) == c >= 65 /\ c <= 90
IsLower(c) == c >= 97 /\ c <= 122
IsAlnum(c) == IsUpper(c) \/ IsLower(c) \/ (c >= 48 /\ c <= 57)
ToLower(c) == IF IsUpper(c) THEN c + 32 ELSE c

\* the words of one alphanumeric run w, scanning from index i with the
\* current word starting at init; mode is "Boundary", "Lowercase" or "Uppercase"
RECURSIVE CaseWords(_, _, _, _)
CaseWords(w, i, init, mode) ==
  IF i > Len(w) THEN <<>>
  ELSE IF i = Len(w) THEN <<SubSeq(w, init, Len(w))>>
  ELSE LET c == w[i]
           next == w[i + 1]
           next_mode == IF IsLower(c) THEN "Lowercase"
                        ELSE IF IsUpper(c) THEN "Uppercase"
                        ELSE mode
       IN  IF next_mode = "Lowercase" /\ IsUpper(next)
             THEN <<SubSeq(w, init, i)>> \o CaseWords(w, i + 1, i + 1, "Boundary")
           ELSE IF mode = "Uppercase" /\ IsUpper(c) /\ IsLower(next)
             THEN <<SubSeq(w, init, i - 1)>> \o CaseWords(w, i + 1, i, "Boundary")
           ELSE CaseWords(w, i + 1, init, next_mode)

\* s.split(|c| !c.is_alphanumeric()), each run cut into its words
RECURSIVE SplitWords(_, _)
SplitWords(s, cur) ==
  IF s = <<>> THEN CaseWords(cur, 1, 1, "Boundary")
  ELSE IF IsAlnum(Head(s)) THEN SplitWords(Tail(s), Append(cur, Head(s)))
  ELSE CaseWords(cur, 1, 1, "Boundary") \o SplitWords(Tail(s), <<>>)

RECURSIVE JoinSnek(_)
JoinSnek(ws) ==
  IF ws = <<>> THEN <<>>
  ELSE LET w == [i \in 1..Len(ws[1]) |-> ToLower(ws[1][i])]
       IN  IF Len(ws) = 1 THEN w ELSE w \o <<95>> \o JoinSnek(Tail(ws))

to_snek_case(s) == JoinSnek(SplitWords(s, <<>>))

(***************************************************************************)
(* Deserializers, and what a request on one of them comes to: the outcome, *)
(* the deserializer handed on to the visitor (visit_some,                  *)
(* visit_newtype_struct), and the access object handed to the visitor      *)
(* (visit_seq, visit_map, visit_enum).                                     *)
(***************************************************************************)
KdlAnnotatedValueWrap(annotation, value) == [annotation |-> annotation, value |-> value]

KdlLiteralDeser(value) == [t |-> "KdlLiteralDeser", value |-> value]

KdlAnnotatedValueDeser(wrap) ==
  [t |-> "KdlAnnotatedValueDeser", annotation |-> wrap.annotation, value |-> wrap.value]

Term(o) == [out |-> o, next |-> None, access |-> None]
Hand(o, d) == [out |-> o, next |-> Some(d), access |-> None]
Open(o, a) == [out |-> o, next |-> None, access |-> Some(a)]

Requests ==
  IntTypes \cup
  {"char", "bool", "f32", "f64", "str", "string", "bytes", "byte_buf",
   "identifier", "unit", "unit_struct", "newtype_struct", "option", "enum",
   "seq", "tuple", "tuple_struct", "map", "struct", "ignored_any", "any"}

(***************************************************************************)
(* impl Deserializer for KdlLiteralDeser                                   *)
(***************************************************************************)
\* deser_int_literal!
Literal_deserialize_int(val, ty) ==
  IF val.kind \in IntKinds
    THEN LET squished == TryInto(val.v, ty)
         IN  IF IsNone(squished) THEN ErrKind("IntSize")
             ELSE Visit("visit_" \o ty, Unwrap(squished))
    ELSE invalid_type(unexpected_val(val), "visitor")

Literal_deserialize_char(val) ==
  IF val.kind \in IntKinds
    THEN LET squished == TryInto(val.v, "u32")
         IN  IF IsNone(squished) THEN ErrKind("IntSize")
             ELSE LET squished_again == CharTryFrom(Unwrap(squished))
                  IN  IF IsNone(squished_again) THEN ErrKind("InvalidChar")
                      ELSE Visit("visit_char", squished_again)
    ELSE invalid_type(unexpected_val(val), "visitor")

Literal_deserialize_f32(val) ==
  IF val.kind = "Base10Float" THEN Visit("visit_f32", AsF32(val.v))
  ELSE invalid_type(unexpected_val(val), "visitor")

Literal_deserialize_f64(val) ==
  IF val.kind = "Base10Float" THEN Visit("visit_f64", val.v)
  ELSE invalid_type(unexpected_val(val), "visitor")

Literal_deserialize_bool(val) ==
  IF val.kind = "Bool" THEN Visit("visit_bool", val.v)
  ELSE invalid_type(unexpected_val(val), "visitor")

Literal_deserialize_str(val) ==
  IF val.kind \in TextKinds THEN Visit("visit_str", val.v)
  ELSE invalid_type(unexpected_val(val), "visitor")

Literal_deserialize_bytes(val) ==
  IF val.kind \in TextKinds THEN Visit("visit_bytes", as_bytes(val.v))
  ELSE invalid_type(unexpected_val(val), "visitor")

Literal_deserialize_unit(val) ==
  IF val.kind = "Null" THEN Visit("visit_unit", <<>>)
  ELSE invalid_type(unexpected_val(val), "visitor")

Literal_deserialize_seq(val) == invalid_type(unexpected_val(val), "visitor")

Literal_deserialize_any(val) ==
  CASE val.kind \in TextKinds -> Literal_deserialize_str(val)
    [] val.kind \in IntKinds -> Literal_deserialize_int(val, "i64")
    [] val.kind = "Base10Float" -> Literal_deserialize_f64(val)
    [] val.kind = "Bool" -> Literal_deserialize_bool(val)
    [] OTHER -> Literal_deserialize_unit(val)

Literal_deserialize_option(val) ==
  IF val.kind = "Null" THEN Term(Visit("visit_none", <<>>))
  ELSE Hand(Visit("visit_some", <<>>), KdlLiteralDeser(val))

Literal_deserialize(val, req) ==
  CASE req \in IntTypes -> Term(Literal_deserialize_int(val, req))
    [] req = "char" -> Term(Literal_deserialize_char(val))
    [] req = "f32" -> Term(Literal_deserialize_f32(val))
    [] req = "f64" -> Term(Literal_deserialize_f64(val))
    [] req = "bool" -> Term(Literal_deserialize_bool(val))
    [] req \in {"str", "string", "identifier"} -> Term(Literal_deserialize_str(val))
    [] req \in {"bytes", "byte_buf"} -> Term(Literal_deserialize_bytes(val))
    [] req \in {"unit", "unit_struct"} -> Term(Literal_deserialize_unit(val))
    [] req = "newtype_struct" ->
         Hand(Visit("visit_newtype_struct", <<>>), KdlLiteralDeser(val))
    [] req = "option" -> Literal_deserialize_option(val)
    [] req = "enum" -> Term(Visit("panic", <<>>))
    [] req \in {"seq", "tuple", "tuple_struct", "map", "struct"} ->
         Term(Literal_deserialize_seq(val))
    [] req = "ignored_any" -> Term(Visit("visit_unit", <<>>))
    [] OTHER -> Term(Literal_deserialize_any(val))

(***************************************************************************)
(* impl Deserializer for KdlAnnotatedValueDeser                            *)
(***************************************************************************)
annotation_is(d, s) == IsSome(d.annotation) /\ Unwrap(d.annotation) = s

EnumLiteralDeserializer(variant, value) ==
  [t |-> "EnumLiteralDeserializer", variant |-> variant, value |-> value]

\* a bug: the length is counted in characters, not in bytes
Annotated_deserialize_u8_by_chars(d) ==
  IF d.value.kind \in TextKinds /\ annotation_is(d, S_byte)
    THEN IF Len(d.value.v) = 1 THEN Visit("visit_u8", Small(as_bytes(d.value.v)[1]))
         ELSE ErrKind("ByteAnnotationLen")
    ELSE Literal_deserialize_int(d.value, "u8")

Annotated_deserialize_u8(d) ==
  IF d.value.kind \in TextKinds /\ annotation_is(d, S_byte)
    THEN LET bytes == as_bytes(d.value.v)
         IN  IF Len(bytes) = 1 THEN Visit("visit_u8", Small(bytes[1]))
             ELSE ErrKind("ByteAnnotationLen")
    ELSE Literal_deserialize_int(d.value, "u8")

Annotated_deserialize_char(d) ==
  IF d.value.kind \in TextKinds /\ annotation_is(d, S_char)
    THEN LET chars == d.value.v
         IN  IF Len(chars) = 1 THEN Visit("visit_char", <<chars[1]>>)
             ELSE ErrKind("CharAnnotationLen")
    ELSE Literal_deserialize_int(d.value, "u8")

Annotated_deserialize_bytes(d) ==
  IF d.value.kind \in TextKinds
    THEN IF annotation_is(d, S_base64)
           THEN LET b64 == base64_decode(d.value.v)
                IN  IF IsNone(b64) THEN ErrKind("Base64Error")
                    ELSE Visit("visit_byte_buf", Unwrap(b64))
           ELSE Visit("visit_bytes", as_bytes(d.value.v))
    ELSE invalid_type(unexpected_val(d.value), "visitor")

Annotated_deserialize_option(d) ==
  IF d.value.kind = "Null" THEN Term(Visit("visit_none", <<>>))
  ELSE Hand(Visit("visit_some", <<>>), d)

Annotated_deserialize_enum(d) ==
  IF IsNone(d.annotation)
    THEN IF d.value.kind \in TextKinds
           THEN Open(Visit("visit_enum", <<>>), EnumLiteralDeserializer(d.value.v, None))
           ELSE Term(invalid_type(unexpected_val(d.value), "visitor"))
    ELSE Open(Visit("visit_enum", <<>>),
              EnumLiteralDeserializer(Unwrap(d.annotation), Some(d.value)))

Annotated_deserialize(d, req) ==
  CASE req = "u8" -> Term(Annotated_deserialize_u8(d))
    [] req = "char" -> Term(Annotated_deserialize_char(d))
    [] req \in {"bytes", "byte_buf"} -> Term(Annotated_deserialize_bytes(d))
    [] req = "option" -> Annotated_deserialize_option(d)
    [] req = "enum" -> Annotated_deserialize_enum(d)
    [] req = "newtype_struct" -> Hand(Visit("visit_newtype_struct", <<>>), d)
    [] OTHER -> Literal_deserialize(d.value, req)

(***************************************************************************)
(* impl EnumAccess / VariantAccess for EnumLiteralDeserializer             *)
(***************************************************************************)
Enum_variant_seed(e) == Visit("variant", e.variant)

\* a bug: the payload of an annotated value is dropped without an error
Enum_unit_variant_lenient(e) == Visit("Ok", <<>>)

Enum_unit_variant(e) ==
  IF IsNone(e.value) THEN Visit("Ok", <<>>)
  ELSE invalid_type(unexpected_val(Unwrap(e.value)), "unannotated string")

\* a bug: the payload is handed on with the annotation still on it
Enum_newtype_variant_seed_annotated(e) ==
  IF IsSome(e.value)
    THEN Hand(Visit("seed", <<>>),
              KdlAnnotatedValueDeser(
                KdlAnnotatedValueWrap(Some(e.variant), Unwrap(e.value))))
  ELSE Term(invalid_type("UnitVariant", "annotated literal"))

Enum_newtype_variant_seed(e) ==
  IF IsSome(e.value) THEN Hand(Visit("seed", <<>>), KdlLiteralDeser(Unwrap(e.value)))
  ELSE Term(invalid_type("UnitVariant", "annotated literal"))

Enum_tuple_variant(e) == invalid_type("argument/property", "visitor")

Enum_struct_variant(e) == invalid_type("argument/property", "visitor")

(***************************************************************************)
(* KdlNodeDeser                                                            *)
(***************************************************************************)
KdlNode(name, entries, children) ==
  [name |-> name, entries |-> entries, children |-> children]

KdlEntry(name, ty, value) == [name |-> name, ty |-> ty, value |-> value]

from_entry(entry) == KdlAnnotatedValueWrap(entry.ty, entry.value)

KdlNodeDeser_new(wrapped) ==
  [t |-> "KdlNodeDeser", name |-> wrapped.name, entries |-> wrapped.entries,
   children |-> wrapped.children, forwarding_to_map_from_struct |-> FALSE]

IsArg(entry) == IsNone(entry.name)
IsProp(entry) == IsSome(entry.name)

\* (args, props), each in the order of the entries
collect_args_props(d) ==
  LET a == SelectSeq(d.entries, IsArg)
      p == SelectSeq(d.entries, IsProp)
  IN  [args |-> [i \in 1..Len(a) |-> from_entry(a[i])],
       props |-> [i \in 1..Len(p) |->
                    [key |-> Unwrap(p[i].name), val |-> from_entry(p[i])]]]

reverse(s) == [i \in 1..Len(s) |-> s[Len(s) + 1 - i]]

\* a bug: one dash child is taken for a list
kids_some_dash(kids) == \E i \in 1..Len(kids) : kids[i].name = S_dash

kids_all_dashes(kids) == \A i \in 1..Len(kids) : kids[i].name = S_dash

MapDeser(properties, children, snekify) ==
  [t |-> "MapDeser", properties |-> properties, children |-> children,
   value |-> [tag |-> "None"], snekify |-> snekify]

SeqArgsDeser(args) == [t |-> "SeqArgsDeser", args |-> args]

SeqDashChildrenDeser(kids) == [t |-> "SeqDashChildrenDeser", kids |-> kids]

\* single_scalar! and deserialize_enum: exactly one argument and nothing else
Node_single_scalar(d, req) ==
  IF Len(d.entries) = 1 /\ IsNone(d.children) /\ IsArg(d.entries[1])
    THEN Annotated_deserialize(KdlAnnotatedValueDeser(from_entry(d.entries[1])), req)
    ELSE Term(invalid_type("node that isn't exactly one argument", "visitor"))

\* a bug: the properties are not reversed before they are popped
Node_deserialize_map_unreversed(d) ==
  LET ap == collect_args_props(d)
  IN  IF ap.args # <<>>
        THEN Term(invalid_type("node with no arguments", "visitor"))
        ELSE Open(Visit("visit_map", <<>>),
                  MapDeser(ap.props, d.children, d.forwarding_to_map_from_struct))

Node_deserialize_map(d) ==
  LET ap == collect_args_props(d)
  IN  IF ap.args # <<>>
        THEN Term(invalid_type("node with no arguments", "visitor"))
        ELSE Open(Visit("visit_map", <<>>),
                  MapDeser(reverse(ap.props), d.children,
                           d.forwarding_to_map_from_struct))

Node_deserialize_struct(d) ==
  Node_deserialize_map([d EXCEPT !.forwarding_to_map_from_struct = TRUE])

\* a bug: the arguments are looked at before the ambiguity
Node_deserialize_any_args_first(d) ==
  LET ap == collect_args_props(d)
  IN  IF ap.args # <<>>
        THEN Open(Visit("visit_seq", <<>>), SeqArgsDeser(reverse(ap.args)))
      ELSE IF ap.props = <<>> /\ IsNone(d.children) THEN Term(Visit("visit_unit", <<>>))
      ELSE IF IsSome(d.children) /\ kids_all_dashes(Unwrap(d.children))
        THEN Open(Visit("visit_seq", <<>>), SeqDashChildrenDeser(Unwrap(d.children)))
      ELSE Node_deserialize_map(d)

Node_deserialize_any(d) ==
  LET all_dashes == IF IsSome(d.children) THEN kids_all_dashes(Unwrap(d.children))
                    ELSE FALSE
      ap == collect_args_props(d)
      has_args == ap.args # <<>>
      has_other == ap.props # <<>> \/ IsSome(d.children)
  IN  IF ~has_args /\ ~has_other THEN Term(Visit("visit_unit", <<>>))
      ELSE IF has_args /\ has_other
        THEN Term(invalid_type(
               "node with arguments, properties/children, or neither (and not both)",
               "visitor"))
      ELSE IF has_args /\ ~has_other
        THEN Open(Visit("visit_seq", <<>>), SeqArgsDeser(reverse(ap.args)))
      ELSE IF all_dashes
        THEN Open(Visit("visit_seq", <<>>), SeqDashChildrenDeser(Unwrap(d.children)))
      ELSE Node_deserialize_map(d)

\* a bug: the arguments are not reversed before they are popped
Node_deserialize_seq_unreversed(d) ==
  LET ap == collect_args_props(d)
  IN  IF ap.props # <<>> \/ (ap.args = <<>> /\ IsNone(d.children))
        THEN Term(invalid_type("node invalid as sequence", "visitor"))
      ELSE IF IsSome(d.children)
        THEN IF ~kids_all_dashes(Unwrap(d.children))
               THEN Term(invalid_type("node invalid as sequence", "visitor"))
               ELSE Open(Visit("visit_seq", <<>>),
                         SeqDashChildrenDeser(Unwrap(d.children)))
      ELSE Open(Visit("visit_seq", <<>>), SeqArgsDeser(ap.args))

Node_deserialize_seq(d) ==
  LET ap == collect_args_props(d)
  IN  IF ap.props # <<>> \/ (ap.args = <<>> /\ IsNone(d.children))
        THEN Term(invalid_type("node invalid as sequence", "visitor"))
      ELSE IF IsSome(d.children)
        THEN IF ~kids_all_dashes(Unwrap(d.children))
               THEN Term(invalid_type("node invalid as sequence", "visitor"))
               ELSE Open(Visit("visit_seq", <<>>),
                         SeqDashChildrenDeser(Unwrap(d.children)))
      ELSE Open(Visit("visit_seq", <<>>), SeqArgsDeser(reverse(ap.args)))

Node_deserialize_unit(d) ==
  LET ap == collect_args_props(d)
  IN  IF ap.args = <<>> /\ ap.props = <<>> /\ IsNone(d.children)
        THEN Visit("visit_unit", <<>>)
        ELSE invalid_type("node with arguments or properties or children", "visitor")

\* a bug: a node holding the single argument null is taken for an absent value
Node_deserialize_option_null_absent(d) ==
  IF Len(d.entries) = 1 /\ IsArg(d.entries[1]) /\ d.entries[1].value.kind = "Null"
    THEN Term(Visit("visit_none", <<>>))
    ELSE Hand(Visit("visit_some", <<>>), d)

Node_deserialize_option(d) == Hand(Visit("visit_some", <<>>), d)

Node_deserialize_newtype_struct(d) == Hand(Visit("visit_newtype_struct", <<>>), d)

NodeScalarRequests ==
  {"u8", "u16", "u32", "u64", "i8", "i16", "i32", "i64", "char", "bool", "f32",
   "f64", "str", "string", "bytes", "byte_buf", "identifier", "enum"}

Node_deserialize(d, req) ==
  CASE req \in NodeScalarRequests -> Node_single_scalar(d, req)
    [] req \in {"u128", "i128"} -> Term(custom(<<req \o " is not supported">>))
    [] req = "any" -> Node_deserialize_any(d)
    [] req = "map" -> Node_deserialize_map(d)
    [] req = "struct" -> Node_deserialize_struct(d)
    [] req \in {"seq", "tuple", "tuple_struct"} -> Node_deserialize_seq(d)
    [] req \in {"unit", "unit_struct"} -> Term(Node_deserialize_unit(d))
    [] req = "ignored_any" -> Term(Visit("visit_unit", <<>>))
    [] req = "option" -> Node_deserialize_option(d)
    [] OTHER -> Node_deserialize_newtype_struct(d)

\* a request on whichever deserializer the caller holds
Deserialize(d, req) ==
  CASE d.t = "KdlNodeDeser" -> Node_deserialize(d, req)
    [] d.t = "KdlAnnotatedValueDeser" -> Annotated_deserialize(d, req)
    [] OTHER -> Literal_deserialize(d.value, req)

(***************************************************************************)
(* impl MapAccess for MapDeser, impl SeqAccess for SeqArgsDeser and        *)
(* SeqDashChildrenDeser: one call on the cursor gives the cursor after it, *)
(* what the call returns, and the deserializer it hands to the seed.       *)
(***************************************************************************)
Step(access, o, next) == [access |-> access, out |-> o, next |-> next]

Front(s) == SubSeq(s, 1, Len(s) - 1)
Last(s) == s[Len(s)]

\* a bug: a pending value does not stop the next key
MapDeser_next_key_seed_value_dropped(m) ==
  IF m.properties # <<>>
    THEN LET kv == Last(m.properties)
             snek == IF m.snekify THEN to_snek_case(kv.key) ELSE kv.key
         IN  Step([m EXCEPT !.properties = Front(m.properties),
                            !.value = [tag |-> "Property", prop |-> kv.val]],
                  Visit("Some", snek), None)
  ELSE IF IsSome(m.children) /\ Unwrap(m.children) # <<>>
    THEN LET kid == Head(Unwrap(m.children))
             snek == IF m.snekify THEN to_snek_case(kid.name) ELSE kid.name
         IN  Step([m EXCEPT !.children = Some(Tail(Unwrap(m.children))),
                            !.value = [tag |-> "Child", kid |-> kid]],
                  Visit("Some", snek), None)
  ELSE Step(m, Visit("None", <<>>), None)

MapDeser_next_key_seed(m) ==
  IF m.value.tag # "None"
    THEN Step(m, custom(<<"map visitor requested two keys in a row">>), None)
  ELSE IF m.properties # <<>>
    THEN LET kv == Last(m.properties)
             snek == IF m.snekify THEN to_snek_case(kv.key) ELSE kv.key
         IN  Step([m EXCEPT !.properties = Front(m.properties),
                            !.value = [tag |-> "Property", prop |-> kv.val]],
                  Visit("Some", snek), None)
  ELSE IF IsSome(m.children) /\ Unwrap(m.children) # <<>>
    THEN LET kid == Head(Unwrap(m.children))
             snek == IF m.snekify THEN to_snek_case(kid.name) ELSE kid.name
         IN  Step([m EXCEPT !.children = Some(Tail(Unwrap(m.children))),
                            !.value = [tag |-> "Child", kid |-> kid]],
                  Visit("Some", snek), None)
  ELSE Step(m, Visit("None", <<>>), None)

\* a bug: the child is decoded with the normalization setting of its parent
MapDeser_next_value_seed_snekify_kept(m) ==
  LET taken == [m EXCEPT !.value = [tag |-> "None"]]
  IN  CASE m.value.tag = "None" ->
             Step(taken, custom(<<"map visitor requested a value without a key">>), None)
        [] m.value.tag = "Property" ->
             Step(taken, Visit("seed", <<>>),
                  Some(KdlAnnotatedValueDeser(m.value.prop)))
        [] OTHER ->
             Step(taken, Visit("seed", <<>>),
                  Some([KdlNodeDeser_new(m.value.kid)
                          EXCEPT !.forwarding_to_map_from_struct = m.snekify]))

MapDeser_next_value_seed(m) ==
  LET taken == [m EXCEPT !.value = [tag |-> "None"]]
  IN  CASE m.value.tag = "None" ->
             Step(taken, custom(<<"map visitor requested a value without a key">>), None)
        [] m.value.tag = "Property" ->
             Step(taken, Visit("seed", <<>>),
                  Some(KdlAnnotatedValueDeser(m.value.prop)))
        [] OTHER ->
             Step(taken, Visit("seed", <<>>), Some(KdlNodeDeser_new(m.value.kid)))

SeqArgsDeser_next_element_seed(a) ==
  IF a.args # <<>>
    THEN Step([a EXCEPT !.args = Front(a.args)], Visit("seed", <<>>),
              Some(KdlAnnotatedValueDeser(Last(a.args))))
    ELSE Step(a, Visit("None", <<>>), None)

SeqDashChildrenDeser_next_element_seed(a) ==
  IF a.kids # <<>>
    THEN Step([a EXCEPT !.kids = Tail(a.kids)], Visit("seed", <<>>),
              Some(KdlNodeDeser_new(Head(a.kids))))
    ELSE Step(a, Visit("None", <<>>), None)

(***************************************************************************)
(* The documents and values the model decodes.                             *)
(***************************************************************************)
\* the sequences of at most n distinct members of S
SeqsUpTo(S, n) ==
  UNION {{s \in [1..k -> S] : \A i, j \in 1..k : i # j => s[i] # s[j]} : k \in 0..n}

Arg(ty, value) == KdlEntry(None, ty, value)
Prop(name, ty, value) == KdlEntry(Some(name), ty, value)

IntPool ==
  { Small(0), Small(65), Small(66), Small(127), Small(128), Small(255), Small(256),
    Small(32767), Small(32768), Small(55295), Small(55296), Small(57343),
    Small(57344), Small(65535), I64(0, 0, 1, 0), I64(0, 0, 1, 63766),
    I64(0, 0, 16, 65535), I64(0, 0, 17, 0), I64(0, 0, 32767, 65535),
    I64(0, 0, 32768, 0), I64(0, 0, 65535, 65535), I64(0, 1, 0, 0),
    I64(32767, 65535, 65535, 65535), I64(-1, 65535, 65535, 65535),
    I64(-1, 65535, 65535, 65408), I64(-1, 65535, 65535, 65407),
    I64(-1, 65535, 65535, 32768), I64(-1, 65535, 65535, 32767),
    I64(-1, 65535, 32768, 0), I64(-1, 65535, 32767, 65535), I64(-32768, 0, 0, 0) }

TextPool ==
  {S_empty, S_A, S_AB, S_at, S_eacute, S_robot, S_QQpad, S_QQ1, S_Variant1}

ValuePool ==
  {KdlValue(k, v) : k \in IntKinds, v \in IntPool}
    \cup {KdlValue(k, v) : k \in TextKinds, v \in TextPool}
    \cup {KdlValue("Base10Float", f) : f \in {<<3, 0>>, <<16777217, 0>>, <<-1, -1>>}}
    \cup {KdlValue("Bool", b) : b \in {<<0>>, <<1>>}}
    \cup {NullValue}

AnnotationPool == {None, Some(S_byte), Some(S_char), Some(S_base64), Some(S_Variant2)}

\* the entries a KdlAnnotatedValueDeser is made of
ScalarEntries == {Arg(a, v) : a \in AnnotationPool, v \in ValuePool}

\* the entries and children of the nodes
EntryPool ==
  { Arg(None, KdlValue("Base10", Small(1))),
    Arg(None, KdlValue("String", S_AB)),
    Prop(S_a_kid, None, NullValue),
    Prop(S_an_enum, Some(S_Variant2), KdlValue("String", S_A)),
    Prop(S_foo, None, KdlValue("String", S_at)) }

KidPool ==
  { KdlNode(S_dash, <<Arg(None, KdlValue("String", S_robot))>>, None),
    KdlNode(S_a_kid, <<Arg(None, NullValue)>>, None),
    KdlNode(S_dash, <<Prop(S_a_kid, None, NullValue)>>, Some(<<>>)) }

TopNodes ==
  { KdlNode(S_foo, es, ch) :
      es \in SeqsUpTo(EntryPool, MaxEntries),
      ch \in {None} \cup {Some(ks) : ks \in SeqsUpTo(KidPool, MaxKids)} }

(***************************************************************************)
(* The state: the deserializer a caller holds and has not yet asked (de),  *)
(* the access objects of the visitors in progress, innermost last (stack), *)
(* what the last call returned (out) and what that call was (last).  Each  *)
(* stack frame keeps, beside the access object, the deserializer that made *)
(* it (origin), the request that made it (req) and what it delivered so    *)
(* far (log): the keys, the values, the elements, and the first end.       *)
(***************************************************************************)
Frame(access, origin, req) ==
  [access |-> access, origin |-> origin, req |-> req, log |-> <<>>]

Event(ev, key, d) == [ev |-> ev, key |-> key, de |-> d]

Top == Last(stack)

Ended(f) == \E i \in 1..Len(f.log) : f.log[i].ev = "end"

\* lib.rs deserialize_node, or KdlAnnotatedValueDeser::new on an entry
Init ==
  /\ de \in {Some(KdlNodeDeser_new(n)) : n \in TopNodes}
            \cup {Some(KdlAnnotatedValueDeser(from_entry(e))) : e \in ScalarEntries}
  /\ stack = <<>>
  /\ out = Visit("", <<>>)
  /\ last = [req |-> "", on |-> None]

\* the holder of a deserializer asks it for a shape
Request(req) ==
  /\ IsSome(de)
  /\ LET r == Deserialize(Unwrap(de), req)
     IN  /\ out' = r.out
         /\ de' = r.next
         /\ stack' = IF IsSome(r.access)
                       THEN Append(stack, Frame(Unwrap(r.access), Unwrap(de), req))
                       ELSE stack
  /\ last' = [req |-> req, on |-> de]

\* a call on the innermost access object: r is what it comes to
Advance(call, r, ev) ==
  LET advancing == r.out.call \in {"Some", "seed"}
      first_end == r.out.call = "None" /\ ~Ended(Top)
      e == IF advancing THEN ev ELSE "end"
      key == IF r.out.call = "Some" THEN r.out.arg ELSE <<>>
  IN  /\ stack' = [stack EXCEPT ![Len(stack)] =
                     [access |-> r.access, origin |-> Top.origin, req |-> Top.req,
                      log |-> IF advancing \/ first_end
                                THEN Append(Top.log, Event(e, key, r.next))
                                ELSE Top.log]]
      /\ out' = r.out
      /\ de' = r.next
      /\ last' = [req |-> call, on |-> None]

next_key_seed ==
  /\ IsNone(de) /\ stack # <<>> /\ Top.access.t = "MapDeser"
  /\ Advance("next_key_seed", MapDeser_next_key_seed(Top.access), "key")

next_value_seed ==
  /\ IsNone(de) /\ stack # <<>> /\ Top.access.t = "MapDeser"
  /\ Advance("next_value_seed", MapDeser_next_value_seed(Top.access), "value")

next_element_seed_args ==
  /\ IsNone(de) /\ stack # <<>> /\ Top.access.t = "SeqArgsDeser"
  /\ Advance("next_element_seed", SeqArgsDeser_next_element_seed(Top.access), "elem")

next_element_seed_kids ==
  /\ IsNone(de) /\ stack # <<>> /\ Top.access.t = "SeqDashChildrenDeser"
  /\ Advance("next_element_seed",
             SeqDashChildrenDeser_next_element_seed(Top.access), "elem")

\* EnumAccess::variant_seed takes the access object and gives it back as
\* the VariantAccess
variant_seed ==
  /\ IsNone(de) /\ stack # <<>> /\ Top.access.t = "EnumLiteralDeserializer"
  /\ Top.log = <<>>
  /\ stack' = [stack EXCEPT ![Len(stack)].log =
                 <<Event("variant", Top.access.variant, None)>>]
  /\ out' = Enum_variant_seed(Top.access)
  /\ de' = None
  /\ last' = [req |-> "variant_seed", on |-> None]

\* the VariantAccess methods consume the access object
VariantCall(call, r) ==
  /\ IsNone(de) /\ stack # <<>> /\ Top.access.t = "EnumLiteralDeserializer"
  /\ Top.log # <<>>
  /\ stack' = Front(stack)
  /\ out' = r.out
  /\ de' = r.next
  /\ last' = [req |-> call, on |-> Some(Top.access)]

unit_variant == VariantCall("unit_variant", Term(Enum_unit_variant(Top.access)))

newtype_variant_seed ==
  VariantCall("newtype_variant_seed", Enum_newtype_variant_seed(Top.access))

tuple_variant == VariantCall("tuple_variant", Term(Enum_tuple_variant(Top.access)))

struct_variant == VariantCall("struct_variant", Term(Enum_struct_variant(Top.access)))

\* the visitor holding the innermost access object returns
Finish ==
  /\ IsNone(de) /\ stack # <<>>
  /\ stack' = Front(stack)
  /\ out' = Visit("return", <<>>)
  /\ de' = None
  /\ last' = [req |-> "return", on |-> Some(Top.origin)]

Next ==
  \/ \E req \in Requests : Request(req)
  \/ next_key_seed
  \/ next_value_seed
  \/ next_element_seed_args
  \/ next_element_seed_kids
  \/ variant_seed
  \/ unit_variant
  \/ newtype_variant_seed
  \/ tuple_variant
  \/ struct_variant
  \/ Finish

Spec == Init /\ [][Next]_vars

(***************************************************************************)
(* Properties.  In every state, out is what the call named by last came    *)
(* to, and last.on is the deserializer (or the enum access) it was made    *)
(* on.                                                                     *)
(***************************************************************************)
OnNode == IsSome(last.on) /\ Unwrap(last.on).t = "KdlNodeDeser"
OnAnnotated == IsSome(last.on) /\ Unwrap(last.on).t = "KdlAnnotatedValueDeser"
OnLiteral == IsSome(last.on) /\ Unwrap(last.on).t = "KdlLiteralDeser"
On == Unwrap(last.on)

HasArgs(d) == \E i \in 1..Len(d.entries) : IsNone(d.entries[i].name)
HasProps(d) == \E i \in 1..Len(d.entries) : IsSome(d.entries[i].name)
PropsOf(d) == SelectSeq(d.entries, IsProp)
KidsOf(d) == IF IsSome(d.children) THEN Unwrap(d.children) ELSE <<>>
AllDash(kids) == {i \in 1..Len(kids) : kids[i].name # S_dash} = {}

AmbiguousError ==
  /\ out.call = "Err"
  /\ out.msg[2] = "node with arguments, properties/children, or neither (and not both)"

\* C1: a schema-less decode of a node with at least one argument and also a
\* property or a present children list fails with the ambiguous-shape error:
\* nothing is handed on and no sequence or map access is opened for it.
C1_AmbiguousAnyFails ==
  (last.req = "any" /\ OnNode /\ HasArgs(On)
     /\ (HasProps(On) \/ IsSome(On.children)))
    => /\ AmbiguousError
       /\ IsNone(de)
       /\ \A i \in 1..Len(stack) : stack[i].origin # On \/ stack[i].req # "any"

C1_Witness ==
  /\ last.req = "any" /\ OnNode /\ HasArgs(On) /\ ~HasProps(On)
  /\ IsSome(On.children) /\ On.children = Some(<<>>)
  /\ AmbiguousError

\* C2: a schema-less decode of a node with no arguments and a present
\* children list opens a sequence over the children when every child is named
\* "-" (properties or not), and a map otherwise; the sequence delivers the
\* children in document order, each as a node deserializer, then the end.
C2_DashSequence ==
  /\ (last.req = "any" /\ OnNode /\ ~HasArgs(On) /\ IsSome(On.children))
       => IF AllDash(KidsOf(On))
            THEN /\ out.call = "visit_seq"
                 /\ stack # <<>> /\ Top.origin = On /\ Top.log = <<>>
                 /\ Top.access = SeqDashChildrenDeser(KidsOf(On))
            ELSE /\ out.call = "visit_map"
                 /\ stack # <<>> /\ Top.origin = On /\ Top.log = <<>>
                 /\ Top.access.t = "MapDeser"
  /\ \A i \in 1..Len(stack) :
       LET f == stack[i]
           kids == KidsOf(f.origin)
       IN  (f.req = "any" /\ f.access.t = "SeqDashChildrenDeser")
             => /\ Len(f.log) <= Len(kids) + 1
                /\ \A j \in 1..Len(f.log) :
                     IF j <= Len(kids)
                       THEN /\ f.log[j].ev = "elem"
                            /\ f.log[j].de = Some(KdlNodeDeser_new(kids[j]))
                       ELSE f.log[j].ev = "end"

C2_Witness ==
  /\ stack # <<>> /\ Top.req = "any" /\ Top.access.t = "SeqDashChildrenDeser"
  /\ HasProps(Top.origin) /\ Len(KidsOf(Top.origin)) = 2
  /\ Len(Top.log) = 3 /\ Top.log[3].ev = "end"

\* C3: a map or struct request on a node without arguments delivers, call by
\* call, every property in entry order (key: its name; value: the annotated
\* value deserializer of its value) and then every child in document order
\* (key: its name; value: a node deserializer of the child), each once, and
\* reports the end only after all of them; a struct request delivers the names
\* in their normalized form.
C3_MapOrder ==
  \A i \in 1..Len(stack) :
    LET f == stack[i]
        props == PropsOf(f.origin)
        kids == KidsOf(f.origin)
        n == Len(props) + Len(kids)
        name(k) == IF k <= Len(props) THEN Unwrap(props[k].name)
                   ELSE kids[k - Len(props)].name
        value(k) == IF k <= Len(props)
                      THEN KdlAnnotatedValueDeser(from_entry(props[k]))
                      ELSE KdlNodeDeser_new(kids[k - Len(props)])
    IN  (f.access.t = "MapDeser" /\ f.req \in {"map", "struct"})
          => /\ ~HasArgs(f.origin)
             /\ Len(f.log) <= 2 * n + 1
             /\ \A j \in 1..Len(f.log) :
                  IF j = 2 * n + 1 THEN f.log[j].ev = "end"
                  ELSE IF j % 2 = 1
                    THEN /\ f.log[j].ev = "key"
                         /\ f.log[j].key = IF f.req = "struct"
                                             THEN to_snek_case(name((j + 1) \div 2))
                                             ELSE name((j + 1) \div 2)
                    ELSE /\ f.log[j].ev = "value"
                         /\ f.log[j].de = Some(value(j \div 2))

C3_Witness ==
  /\ stack # <<>> /\ Top.access.t = "MapDeser" /\ Top.req = "map"
  /\ Len(PropsOf(Top.origin)) = 2 /\ Len(KidsOf(Top.origin)) = 2
  /\ Len(Top.log) = 9 /\ Top.log[9].ev = "end"

\* the range of an integer type, read off the limbs of the value
Fits(v, ty) ==
  CASE ty = "u8" -> v[1] = 0 /\ v[2] = 0 /\ v[3] = 0 /\ v[4] < 256
    [] ty = "u16" -> v[1] = 0 /\ v[2] = 0 /\ v[3] = 0
    [] ty = "u32" -> v[1] = 0 /\ v[2] = 0
    [] ty \in {"u64", "u128"} -> v[1] >= 0
    [] ty = "i8" -> \/ v[1] = 0 /\ v[2] = 0 /\ v[3] = 0 /\ v[4] < 128
                    \/ v[1] = -1 /\ v[2] = 65535 /\ v[3] = 65535 /\ v[4] >= 65408
    [] ty = "i16" -> \/ v[1] = 0 /\ v[2] = 0 /\ v[3] = 0 /\ v[4] < 32768
                     \/ v[1] = -1 /\ v[2] = 65535 /\ v[3] = 65535 /\ v[4] >= 32768
    [] ty = "i32" -> \/ v[1] = 0 /\ v[2] = 0 /\ v[3] < 32768
                     \/ v[1] = -1 /\ v[2] = 65535 /\ v[3] >= 32768
    [] OTHER -> TRUE

\* the u8 request on a text annotated `byte` is the byte rule, not an
\* integer request
ByteRule ==
  /\ last.req = "u8" /\ OnAnnotated
  /\ On.value.kind \in TextKinds /\ On.annotation = Some(S_byte)

LegalScalar(v) ==
  /\ v[1] = 0 /\ v[2] = 0 /\ v[3] <= 16
  /\ ~(v[3] = 0 /\ v[4] >= 55296 /\ v[4] <= 57343)

\* C5: a char request on a scalar whose annotation is absent or is not "char"
\* needs an Int; a magnitude that is a legal Unicode scalar value yields that
\* character (65 yields 'A'), any other magnitude is an error (InvalidChar
\* when it fits 32 bits unsigned).
C5_CharFromInt ==
  (last.req = "char" /\ OnAnnotated /\ On.annotation # Some(S_char))
    => IF On.value.kind \in IntKinds
         THEN IF LegalScalar(On.value.v)
                THEN out = Visit("visit_char", <<On.value.v[3] * 65536 + On.value.v[4]>>)
                ELSE IF Fits(On.value.v, "u32") THEN out = ErrKind("InvalidChar")
                ELSE out.call = "Err"
         ELSE out.call = "Err"

OnEnum == IsSome(last.on) /\ Unwrap(last.on).t = "EnumLiteralDeserializer"

\* C7: an enum request on a scalar: without annotation a text is the name of
\* a unit variant and any other value is an error; with an annotation the
\* annotation is the name of a newtype variant wrapping the value; a unit
\* variant of an annotated value, a newtype variant of an unannotated one,
\* and every tuple or struct variant fail.
C7_EnumRequest ==
  /\ (last.req = "enum" /\ OnAnnotated)
       => IF IsSome(On.annotation)
            THEN /\ out.call = "visit_enum" /\ stack # <<>> /\ Top.origin = On
                 /\ Top.access =
                      EnumLiteralDeserializer(Unwrap(On.annotation), Some(On.value))
          ELSE IF On.value.kind \in TextKinds
            THEN /\ out.call = "visit_enum" /\ stack # <<>> /\ Top.origin = On
                 /\ Top.access = EnumLiteralDeserializer(On.value.v, None)
          ELSE /\ out.call = "Err" /\ IsNone(de)
               /\ \A i \in 1..Len(stack) : stack[i].access.t # "EnumLiteralDeserializer"
  /\ (last.req = "variant_seed")
       => stack # <<>> /\ out = Visit("variant", Top.access.variant)
  /\ (last.req = "unit_variant" /\ OnEnum)
       => IF IsNone(On.value) THEN out = Visit("Ok", <<>>) ELSE out.call = "Err"
  /\ (last.req = "newtype_variant_seed" /\ OnEnum)
       => IF IsSome(On.value)
            THEN out.call # "Err" /\ de = Some(KdlLiteralDeser(Unwrap(On.value)))
            ELSE out.call = "Err" /\ IsNone(de)
  /\ (last.req \in {"tuple_variant", "struct_variant"} /\ OnEnum)
       => out.call = "Err" /\ IsNone(de)

C7_Witness ==
  /\ last.req = "newtype_variant_seed" /\ OnEnum
  /\ On.variant = S_Variant2
  /\ de = Some(KdlLiteralDeser(KdlValue("String", S_A)))

\* the text a request is made on when it carries no annotation: a property
\* value or an argument, the single argument of a node, the payload of a
\* newtype variant
BareText ==
  IF OnNode
    THEN IF /\ Len(On.entries) = 1 /\ IsArg(On.entries[1]) /\ IsNone(On.children)
            /\ IsNone(On.entries[1].ty) /\ On.entries[1].value.kind \in TextKinds
           THEN Some(On.entries[1].value.v) ELSE None
  ELSE IF OnAnnotated
    THEN IF IsNone(On.annotation) /\ On.value.kind \in TextKinds
           THEN Some(On.value.v) ELSE None
  ELSE IF OnLiteral
    THEN IF On.value.kind \in TextKinds THEN Some(On.value.v) ELSE None
  ELSE None

\* C8: a text of exactly one byte decodes into a u8, and a text of exactly
\* one character into a char, without any `byte` or `char` annotation.
C8_BareTextAsByteOrChar ==
  /\ (last.req = "u8" /\ IsSome(BareText)
        /\ Len(Unwrap(BareText)) = 1 /\ Unwrap(BareText)[1] < 128)
       => out = Visit("visit_u8", Small(Unwrap(BareText)[1]))
  /\ (last.req = "char" /\ IsSome(BareText) /\ Len(Unwrap(BareText)) = 1)
       => out = Visit("visit_char", Unwrap(BareText))

\* C9: an option request on a child node whose only entry is the single
\* argument null gives the absent option.
C9_NullChildIsNone ==
  (last.req = "option" /\ OnNode
     /\ On.entries = <<Arg(None, NullValue)>> /\ IsNone(On.children))
    => out.call = "visit_none"

SeqRequests == {"seq", "tuple", "tuple_struct"}
ArgsOf(d) == SelectSeq(d.entries, IsArg)

OnScalar == OnAnnotated \/ OnLiteral

\* C12: every kind or shape mismatch is reported with the MismatchedType
\* error kind: an integer request on a scalar that is not an Int, a bool
\* request on a scalar that is not a Bool, a map or struct request on a node
\* with an argument, a sequence request on a node with a property, a unit
\* request on a node that is not empty.
C12_MismatchIsMismatchedType ==
  /\ (last.req \in IntTypes /\ OnScalar /\ ~ByteRule
        /\ On.value.kind \notin IntKinds)
       => out.call = "Err" /\ out.kind = "MismatchedType"
  /\ (last.req = "bool" /\ OnScalar /\ On.value.kind # "Bool")
       => out.call = "Err" /\ out.kind = "MismatchedType"
  /\ (last.req \in {"map", "struct"} /\ OnNode /\ HasArgs(On))
       => out.call = "Err" /\ out.kind = "MismatchedType"
  /\ (last.req \in SeqRequests /\ OnNode /\ HasProps(On))
       => out.call = "Err" /\ out.kind = "MismatchedType"
  /\ (last.req \in {"unit", "unit_struct"} /\ OnNode
        /\ (On.entries # <<>> \/ IsSome(On.children)))
       => out.call = "Err" /\ out.kind = "MismatchedType"

\* C13: a tuple struct request on a node that carries a property or a
\* children list fails with the TupleStructWithNotJustArgs error; it never
\* succeeds and never fails with another error kind.
C13_TupleStructNotJustArgs ==
  (last.req = "tuple_struct" /\ OnNode /\ (HasProps(On) \/ IsSome(On.children)))
    => out.call = "Err" /\ out.kind = "TupleStructWithNotJustArgs"

\* what a map decode of the node d has to deliver, entry by entry: the
\* properties in entry order, then the children in document order
MapEntryCount(d) == Len(PropsOf(d)) + Len(KidsOf(d))

MapEntryName(d, k) ==
  IF k <= Len(PropsOf(d)) THEN Unwrap(PropsOf(d)[k].name)
  ELSE KidsOf(d)[k - Len(PropsOf(d))].name

MapEntryValue(d, k) ==
  IF k <= Len(PropsOf(d)) THEN KdlAnnotatedValueDeser(from_entry(PropsOf(d)[k]))
  ELSE KdlNodeDeser_new(KidsOf(d)[k - Len(PropsOf(d))])

\* a key was delivered and its value was not yet requested
Pending(f) == f.log # <<>> /\ Last(f.log).ev = "key"

KeysDelivered(f) == Cardinality({j \in 1..Len(f.log) : f.log[j].ev = "key"})

\* C14: in one map decode, a next-key call made while the value of a
\* delivered key was not yet requested fails and moves nothing, and a
\* next-value call made with no pending key (before the first key, right
\* after a value, after the end) fails and moves nothing; a next-key call
\* with no pending key delivers the name of the next entry in order, or the
\* end after the last, and a next-value call with a pending key delivers the
\* value of the entry whose key is pending.
C14_MapCursorProtocol ==
  [][ /\ next_key_seed
           => IF Pending(Top)
                THEN out'.call = "Err" /\ IsNone(de') /\ stack' = stack
              ELSE IF KeysDelivered(Top) < MapEntryCount(Top.origin)
                THEN /\ out'.call = "Some"
                     /\ out'.arg \in
                          LET name == MapEntryName(Top.origin, KeysDelivered(Top) + 1)
                          IN  {name, to_snek_case(name)}
                     /\ Last(stack').log = Append(Top.log, Event("key", out'.arg, None))
              ELSE out' = Visit("None", <<>>)
      /\ next_value_seed
           => IF Pending(Top)
                THEN /\ out'.call # "Err"
                     /\ LET d == Some(MapEntryValue(Top.origin, KeysDelivered(Top)))
                         IN  /\ de' = d
                             /\ Last(stack').log = Append(Top.log, Event("value", <<>>, d))
                ELSE out'.call = "Err" /\ IsNone(de') /\ stack' = stack
    ]_vars

C14_Witness ==
  /\ last.req = "next_key_seed" /\ out.call = "Err"
  /\ out.msg = <<"map visitor requested two keys in a row">>
  /\ stack # <<>> /\ Top.access.t = "MapDeser"
  /\ Len(Top.log) = 3 /\ Pending(Top)
  /\ MapEntryCount(Top.origin) = 3

TypeMismatch(o) == o.call = "Err" /\ o.msg # <<>> /\ o.msg[1] = "invalid type"

\* what a text payload answers: a mismatch to u8 and to char, its raw UTF-8
\* bytes to a byte request
BarePayload(u8, char, bytes, text) ==
  /\ TypeMismatch(u8)
  /\ TypeMismatch(char)
  /\ bytes = Visit("visit_bytes", as_bytes(text))

IsKebab(s) ==
  /\ s # <<>> /\ s[1] # 45 /\ s[Len(s)] # 45
  /\ \A i \in 1..Len(s) :
       \/ s[i] \in 97..122
       \/ s[i] \in 48..57
       \/ s[i] = 45 /\ s[i + 1] # 45

\* kebab to snake: every dash becomes an underscore
KebabToSnake(s) == [i \in 1..Len(s) |-> IF s[i] = 45 THEN 95 ELSE s[i]]

\* C16: in a map decode, the keys (property names and child names) of a
\* struct request are delivered in their normalized form, which for a kebab
\* name is its snake form (an-enum is delivered as an_enum); the keys of an
\* open map request, and of a schema-less decode that reads the node as a
\* map, are the unmodified names; each decode goes by its own request, so a
\* map nested in a struct gets unmodified keys.
C16_KeyNormalization ==
  \A i \in 1..Len(stack) :
    LET f == stack[i]
    IN  f.access.t = "MapDeser"
          => \A j \in 1..Len(f.log) :
               f.log[j].ev = "key"
                 => LET k == Cardinality({h \in 1..j : f.log[h].ev = "key"})
                        name == MapEntryName(f.origin, k)
                    IN  IF f.req = "struct"
                          THEN /\ f.log[j].key = to_snek_case(name)
                               /\ IsKebab(name) => f.log[j].key = KebabToSnake(name)
                          ELSE f.log[j].key = name

C16_Witness ==
  /\ Len(stack) = 2
  /\ stack[1].req = "struct" /\ stack[1].access.t = "MapDeser"
  /\ stack[1].log # <<>> /\ stack[1].log[1].key = <<97, 110, 95, 101, 110, 117, 109>>
  /\ stack[2].req = "map" /\ stack[2].access.t = "MapDeser"
  /\ stack[2].log # <<>> /\ stack[2].log[1].key = S_a_kid
====
